---------------------------- MODULE Spec2Model ----------------------------
(***************************************************************************)
(* Model of the movie recommendation bot (src/main.py) and of the dataset  *)
(* preprocessing script (src/dataset_handler.py).                          *)
(*                                                                         *)
(* Strings that the code inspects (the Genre field, the callback data)     *)
(* are sequences of character codes; strings it only carries around        *)
(* (names, dates) are TLA+ strings.  A cell of a pandas frame is a record  *)
(* with an `na` flag (NaN / missing).  Ratings are integers in tenths of a *)
(* point (85 is 8.5).  The Duration/Certificate columns, which only feed   *)
(* the rendered text, are not part of the files modelled here.             *)
(***************************************************************************)
EXTENDS Integers, Sequences, FiniteSets, TLC

VARIABLES
    rawFile,            \* imdb_movies.csv on disk
    cacheFile,          \* movies_data.csv on disk
    movies_df,          \* main.py global: the loaded table
    available_genres,   \* main.py global: the genre vocabulary
    argsort_order,      \* the order the build's argsort gives the rated rows
    conv,               \* ConversationHandler state of each chat
    reply,              \* the last message a handler sent (or what it raised)
    first,              \* history: the first list of movies sent, and for which request
    dh                  \* last return value of dataset_handler.load_movies_data

vars == <<rawFile, cacheFile, movies_df, available_genres, argsort_order,
          conv, reply, first, dh>>

---------------------------------------------------------------------------
(* Bounds of the model *)

MaxRows == 2
LongLen == 12
NumChats == 1

---------------------------------------------------------------------------
(* Python / pandas string helpers *)

\* character codes
COMMA == 44
UNDERSCORE == 95
SPACE == 32

\* str.lower() on one ASCII character (re.IGNORECASE / case=False)
lower(c) == IF c \in 65..90 THEN c + 32 ELSE c

lower_str(s) == [i \in 1..Len(s) |-> lower(s[i])]

\* position of the first occurrence of sep in s, 0 if none
RECURSIVE find(_, _, _)
find(s, sep, i) ==
    IF i > Len(s) THEN 0
    ELSE IF s[i] = sep THEN i
    ELSE find(s, sep, i + 1)

\* str.split(sep): the pieces between the separators, empty pieces kept
RECURSIVE split(_, _)
split(s, sep) ==
    LET p == find(s, sep, 1)
    IN  IF p = 0 THEN <<s>>
        ELSE <<SubSeq(s, 1, p - 1)>> \o split(SubSeq(s, p + 1, Len(s)), sep)

RECURSIVE lstrip(_)
lstrip(s) ==
    IF s # <<>> /\ s[1] = SPACE THEN lstrip(Tail(s)) ELSE s

RECURSIVE rstrip(_)
rstrip(s) ==
    IF s # <<>> /\ s[Len(s)] = SPACE THEN rstrip(SubSeq(s, 1, Len(s) - 1)) ELSE s

\* str.strip()
strip(s) == rstrip(lstrip(s))

\* Series.str.contains(pat, case=False) on one cell: pat, which holds no
\* regular-expression metacharacter here, occurs in s ignoring case
str_contains(s, pat) ==
    \E i \in 0..(Len(s) - Len(pat)) :
        lower_str(SubSeq(s, i + 1, i + Len(pat))) = lower_str(pat)

\* Python's str <: code-point lexicographic order
RECURSIVE str_less(_, _)
str_less(a, b) ==
    IF b = <<>> THEN FALSE
    ELSE IF a = <<>> THEN TRUE
    ELSE IF a[1] # b[1] THEN a[1] < b[1]
    ELSE str_less(Tail(a), Tail(b))

\* sorted(S) for a set of strings
RECURSIVE sorted(_)
sorted(S) ==
    IF S = {} THEN <<>>
    ELSE LET m == CHOOSE x \in S : \A y \in S : x = y \/ str_less(x, y)
         IN  <<m>> \o sorted(S \ {m})

Range(f) == {f[i] : i \in DOMAIN f}

\* position of label x in a sequence of labels, 0 if absent
RECURSIVE position(_, _, _)
position(order, x, i) ==
    IF i > Len(order) THEN 0
    ELSE IF order[i] = x THEN i
    ELSE position(order, x, i + 1)

---------------------------------------------------------------------------
(* Cells, rows and files *)

\* a string cell and the missing cell (NaN) of a Name, Date or Type column
Str(x) == [na |-> FALSE, s |-> x]
NaS == [na |-> TRUE, s |-> ""]

\* a Genre cell: the text as character codes
Gen(x) == [na |-> FALSE, s |-> x]
NaG == [na |-> TRUE, s |-> <<>>]

\* a raw Rate cell: a number, a text that is no number, or empty
RNum(n) == [k |-> "num", n |-> n, s |-> ""]
RStr(x) == [k |-> "str", n |-> 0, s |-> x]
RNaN == [k |-> "nan", n |-> 0, s |-> ""]

\* a numeric (float) cell
Num(n) == [na |-> FALSE, v |-> n]
NaN == [na |-> TRUE, v |-> 0]

AllColumns == {"Name", "Date", "Rate", "Genre", "Type"}

Row(name, rate, genre) ==
    [Name |-> name, Date |-> Str("2020"), Rate |-> rate, Genre |-> genre,
     Type |-> Str("Film")]

\* the rows short files are made of; the genres are
\*   "A, B"      "b"      " a,,A_b ,a"      "B ,A"      "A"
\* (a file may hold the same row twice: two records of equal rating)
RowPool ==
    { Row(Str("X"), RNum(85), Gen(<<65, 44, 32, 66>>)),
      Row(Str("Y"), RNum(90), Gen(<<98>>)),
      Row(Str("Z"), RStr("No Rate"), Gen(<<32, 97, 44, 44, 65, 95, 98, 32, 44, 97>>)),
      Row(Str("W"), RNaN, Gen(<<66, 32, 44, 65>>)),
      Row(Str("U"), RNum(0), Gen(<<65>>)),
      Row(NaS, RNum(70), Gen(<<65>>)),
      Row(Str("V"), RStr("abc"), NaG) }

SeqsUpTo(S, n) == UNION {[1..m -> S] : m \in 0..n}

\* row i of a long file; pattern 0: all rated, rows 1 and 12 share the top
\* rating; pattern 1: none rated; pattern 2: rated and unrated alternate
LongRow(i, pattern) ==
    LET rated == RNum(10 + 5 * ((i * 5 + 5) % 11))
        unrated == IF i % 3 = 0 THEN RStr("No Rate")
                   ELSE IF i % 3 = 1 THEN RNum(0) ELSE RStr("abc")
        rate == IF pattern = 0 THEN rated
                ELSE IF pattern = 1 THEN unrated
                ELSE IF i % 2 = 1 THEN rated ELSE unrated
        genre == IF i % 4 = 0 THEN Gen(<<65, 44, 66>>) ELSE Gen(<<65>>)
    IN  Row(Str("M"), rate, genre)

LongRows == {[i \in 1..n |-> LongRow(i, p)] : n \in (LongLen - 1)..LongLen, p \in 0..2}

\* the column sets of the files whose header lacks columns
ColumnSets ==
    { AllColumns \ {"Rate"}, AllColumns \ {"Name"}, AllColumns \ {"Genre"},
      AllColumns \ {"Date", "Type"}, {"Date"} }

\* a file with a header of `columns`: each row holds one cell per column
File(columns, rows) ==
    [kind |-> "ok", columns |-> columns,
     rows |-> [i \in 1..Len(rows) |-> [c \in columns |-> rows[i][c]]]]
MissingFile == [kind |-> "missing", columns |-> {}, rows |-> <<>>]
CorruptFile == [kind |-> "corrupt", columns |-> {}, rows |-> <<>>]

RawFiles ==
    {MissingFile, CorruptFile}
    \cup {File(AllColumns, rows) : rows \in SeqsUpTo(RowPool, MaxRows) \cup LongRows}
    \cup {File(cs, rows) : cs \in ColumnSets, rows \in SeqsUpTo(RowPool, 1)}

---------------------------------------------------------------------------
(* pandas frames *)

\* pd.DataFrame(): no columns, no rows
EmptyDataFrame == [columns |-> {}, rows |-> <<>>]

\* df.empty
empty(df) == df.columns = {} \/ df.rows = <<>>

\* pd.read_csv: a frame of the file's columns, rows labelled 0, 1, ... in
\* the field idx; ok is FALSE when the call raises
read_csv(file) ==
    IF file.kind # "ok" THEN [ok |-> FALSE, columns |-> {}, rows |-> <<>>]
    ELSE [ok |-> TRUE, columns |-> file.columns,
          rows |-> [i \in 1..Len(file.rows) |->
                      [c \in file.columns \cup {"idx"} |->
                          IF c = "idx" THEN i - 1 ELSE file.rows[i][c]]]]

\* DataFrame.to_csv(index=False): the columns and the cells, the labels dropped
to_csv(df) ==
    [kind |-> "ok", columns |-> df.columns,
     rows |-> [i \in 1..Len(df.rows) |-> [c \in df.columns |-> df.rows[i][c]]]]

\* whether Series.str works on the Genre column: a column read with rows but
\* no text at all is a float column, and .str raises AttributeError on it
str_accessor_ok(rows) == rows = <<>> \/ \E i \in 1..Len(rows) : ~rows[i].Genre.na

\* pd.to_numeric(errors='coerce') on one raw cell
to_numeric(c) == IF c.k = "num" THEN Num(c.n) ELSE NaN

\* Series.replace("No Rate", np.nan) on one raw cell
replace_no_rate(c) == IF c.k = "str" /\ c.s = "No Rate" THEN RNaN ELSE c

\* the Rate column as main.py leaves it
process_rate(columns, r) ==
    IF "Rate" \in columns THEN to_numeric(replace_no_rate(r.Rate)) ELSE NaN

\* mutant: the tokens are not stripped
unique_genres_unstripped(rows) ==
    LET all_genres ==
            UNION { Range(split(rows[i].Genre.s, COMMA)) :
                    i \in {j \in 1..Len(rows) : ~rows[j].Genre.na} }
    IN  sorted({g \in all_genres : g # <<>>})

\* the vocabulary: split each Genre on ',', strip, drop empties, sort the set
unique_genres(rows) ==
    LET all_genres ==
            UNION { {strip(g) : g \in Range(split(rows[i].Genre.s, COMMA))} :
                    i \in {j \in 1..Len(rows) : ~rows[j].Genre.na} }
    IN  sorted({g \in all_genres : g # <<>>})

\* df.dropna(subset=['Name', 'Genre']) of main.py
dropna_required(rows) == SelectSeq(rows, LAMBDA r : ~r.Name.na /\ ~r.Genre.na)

\* main.py load_movies_data: <<movies_df, available_genres>>
load_movies_data(file) ==
    LET df == read_csv(file)
        kept == dropna_required(df.rows)
        rated == [i \in 1..Len(kept) |->
                    [c \in df.columns \cup {"idx", "Rate"} |->
                        IF c = "Rate" THEN process_rate(df.columns, kept[i])
                        ELSE kept[i][c]]]
    IN  IF file.kind = "missing" THEN <<EmptyDataFrame, <<>> >>
        ELSE IF ~df.ok THEN <<EmptyDataFrame, <<>> >>
        ELSE IF ~({"Name", "Genre"} \subseteq df.columns) THEN <<EmptyDataFrame, <<>> >>
        ELSE IF ~str_accessor_ok(df.rows) THEN <<EmptyDataFrame, <<>> >>
        ELSE <<[columns |-> df.columns \cup {"Rate"}, rows |-> rated],
               unique_genres(rated) >>

---------------------------------------------------------------------------
(* dataset_handler.py *)

ProcessedColumns == <<"Title", "Year", "Rate", "Genre", "Type">>

\* the source column of each processed column
source_column(c) ==
    CASE c = "Title" -> "Name"
      [] c = "Year" -> "Date"
      [] c = "Rate" -> "Rate"
      [] c = "Genre" -> "Genre"
      [] c = "Type" -> "Type"

\* "Unknown"
Unknown == <<85, 110, 107, 110, 111, 119, 110>>

\* the scalar a processed column gets when its source column is absent
default_value(c) ==
    CASE c = "Rate" -> RNum(0)
      [] c = "Genre" -> Gen(Unknown)
      [] OTHER -> Str("Unknown")

\* NaN in the kind of cell column c holds
missing_value(c) ==
    CASE c = "Rate" -> RNaN
      [] c = "Genre" -> NaG
      [] OTHER -> NaS

\* whether a cell is NaN (isna)
isna(c, cell) == IF c = "Rate" THEN cell.k = "nan" ELSE cell.na

\* processed_df[c] = df[source] if source in df.columns else <scalar>, for
\* the columns in order.  processed_df starts without an index: a scalar
\* assigned before the first Series makes a column of no rows, which the
\* first Series then extends with NaN; a scalar assigned after it is
\* broadcast to every row.
assign_columns(df) ==
    LET k(c) == position(ProcessedColumns, c, 1)
        is_series(c) == source_column(c) \in df.columns
        indexed(c) == \E b \in Range(ProcessedColumns) : k(b) < k(c) /\ is_series(b)
        anySeries == \E b \in Range(ProcessedColumns) : is_series(b)
    IN  IF ~anySeries THEN <<>>
        ELSE [i \in 1..Len(df.rows) |->
                [c \in Range(ProcessedColumns) \cup {"idx"} |->
                    IF c = "idx" THEN df.rows[i].idx
                    ELSE IF is_series(c) THEN df.rows[i][source_column(c)]
                    ELSE IF indexed(c) THEN default_value(c)
                    ELSE missing_value(c)]]

\* processed_df.dropna(subset=['Title', 'Rate', 'Genre'])
dropna_processed(rows) ==
    SelectSeq(rows, LAMBDA r : /\ ~isna("Title", r.Title)
                               /\ ~isna("Rate", r.Rate)
                               /\ ~isna("Genre", r.Genre))

\* process_dataset(): ok is its return value, file what it leaves in
\* movies_data.csv (the file as it was when the call raises before to_csv)
process_dataset(input, output) ==
    LET df == read_csv(input)
        processed_df == [columns |-> Range(ProcessedColumns),
                         rows |-> dropna_processed(assign_columns(df))]
    IN  IF ~df.ok THEN [ok |-> FALSE, file |-> output]
        ELSE [ok |-> TRUE, file |-> to_csv(processed_df)]

\* dataset_handler.load_movies_data(): the frame and genres it returns and
\* movies_data.csv as it leaves it
dh_load_movies_data(raw, cache) ==
    LET failed(file) == [df |-> EmptyDataFrame, genres |-> <<>>, cache |-> file]
        extract(file) ==
            LET df == read_csv(file)
            IN  IF ~df.ok THEN failed(file)
                ELSE IF "Genre" \notin df.columns THEN failed(file)
                ELSE IF ~str_accessor_ok(df.rows) THEN failed(file)
                ELSE [df |-> [columns |-> df.columns, rows |-> df.rows],
                      genres |-> unique_genres(df.rows), cache |-> file]
    IN  IF cache.kind # "missing" THEN extract(cache)
        ELSE IF raw.kind # "missing"
        THEN LET done == process_dataset(raw, cache)
             IN  IF ~done.ok THEN failed(done.file) ELSE extract(done.file)
        ELSE failed(cache)

---------------------------------------------------------------------------
(* Recommendation logic of main.py *)

RatedLimit == 5
UnratedLimit == 5
PopularLimit == 10

\* Rate.notna() & (Rate > 0); a comparison with NaN is False
is_rated(r) == ~r.Rate.na /\ r.Rate.v > 0

\* mutant: Rate < 0 in place of Rate <= 0
is_unrated_strict(r) == r.Rate.na \/ (~r.Rate.na /\ r.Rate.v < 0)

\* Rate.isna() | (Rate <= 0)
is_unrated(r) == r.Rate.na \/ (~r.Rate.na /\ r.Rate.v <= 0)

\* DataFrame.head(n)
head(rows, n) == SubSeq(rows, 1, IF Len(rows) < n THEN Len(rows) ELSE n)

\* every order in which an argsort that is not stable (kind='quicksort', the
\* default of sort_values) can leave the labels of the rows S, sorted by Rate
\* descending: rows of equal Rate in any order
RECURSIVE argsort_outcomes(_)
argsort_outcomes(S) ==
    IF S = {} THEN {<<>>}
    ELSE LET tops == {r \in S : \A q \in S : r.Rate.v >= q.Rate.v}
         IN  UNION { {<<r.idx>> \o rest : rest \in argsort_outcomes(S \ {r})} :
                     r \in tops }

\* a before b in the sorted frame: the higher Rate first, and among equal
\* Rates the order the build's argsort gives them
sorts_before(a, b, order) ==
    \/ a.Rate.v > b.Rate.v
    \/ /\ a.Rate.v = b.Rate.v
       /\ position(order, a.idx, 1) < position(order, b.idx, 1)

RECURSIVE sort_set(_, _)
sort_set(S, order) ==
    IF S = {} THEN <<>>
    ELSE LET r == CHOOSE x \in S : \A y \in S : x = y \/ sorts_before(x, y, order)
         IN  <<r>> \o sort_set(S \ {r}, order)

\* rows.sort_values(by='Rate', ascending=False)
sort_values(rows, order) == sort_set(Range(rows), order)

\* the genre of a button's callback data: query.data.split('_')[1]
genre_of(data) == split(data, UNDERSCORE)[2]

\* movies_df[movies_df['Genre'].str.contains(genre, case=False, na=False)]
filter_genre(rows, genre) ==
    SelectSeq(rows, LAMBDA r : ~r.Genre.na /\ str_contains(r.Genre.s, genre))

rated_movies(rows) == SelectSeq(rows, is_rated)
unrated_movies(rows) == SelectSeq(rows, is_unrated)

\* mutant: the rated rows are not sorted before head(5)
top_rated_unsorted(rows, order) == head(rated_movies(rows), RatedLimit)

\* top_rated_movies of genre_selected
top_rated(rows, order) ==
    IF rated_movies(rows) # <<>>
    THEN head(sort_values(rated_movies(rows), order), RatedLimit)
    ELSE <<>>

\* top_unrated_movies of genre_selected
top_unrated(rows) == head(unrated_movies(rows), UnratedLimit)

\* mutant: the sorted frame is not cut to 10
top_movies_uncut(rows, order) == sort_values(rated_movies(rows), order)

\* top_movies of popular_command
top_movies(rows, order) == head(sort_values(rated_movies(rows), order), PopularLimit)

\* mutant: random.randint(0, n), both ends included
randint_inclusive(n) == 0..n

\* the indices random.randint(0, n - 1) can return
randint(n) == 0..(n - 1)

---------------------------------------------------------------------------
(* The bot: handlers of main.py *)

Chats == 1..NumChats

\* "genre_"
GenrePrefix == <<103, 101, 110, 114, 101, 95>>

\* a button of an earlier keyboard, still in the chat: genre "C"
StaleButtons == {<<67>>}

\* the callback data a user can send: the buttons recommend_command offers
\* and the buttons of earlier messages
CallbackData ==
    {GenrePrefix \o g : g \in Range(available_genres) \cup StaleButtons}

NoRow == [idx |-> -1]

\* a message: the handler that sent it, what it says, and its payload
Msg(cmd, kind) ==
    [cmd |-> cmd, kind |-> kind, data |-> <<>>, genre |-> <<>>,
     rated |-> <<>>, unrated |-> <<>>, index |-> -1, movie |-> NoRow]

NoReply == Msg("none", "none")

\* history of the outputs: the first request served with a list of movies
\* (popular, or a genre button), what was sent, and whether the same
\* request has been served again since
NoHistory == [cmd |-> "none", data |-> <<>>, rated |-> <<>>, unrated |-> <<>>,
              again |-> FALSE]

record(cmd, data, rated, unrated) ==
    IF first.cmd = "none"
    THEN [cmd |-> cmd, data |-> data, rated |-> rated, unrated |-> unrated,
          again |-> FALSE]
    ELSE IF first.cmd = cmd /\ first.data = data
    THEN [first EXCEPT !.again = TRUE]
    ELSE first

start(c) ==
    /\ reply' = Msg("start", "text")
    /\ UNCHANGED <<rawFile, cacheFile, movies_df, available_genres,
                   argsort_order, conv, first, dh>>

help_command(c) ==
    /\ reply' = Msg("help", "text")
    /\ UNCHANGED <<rawFile, cacheFile, movies_df, available_genres,
                   argsort_order, conv, first, dh>>

genres_command(c) ==
    /\ reply' = IF available_genres = <<>>
                THEN Msg("genres", "unavailable")
                ELSE Msg("genres", "list")
    /\ UNCHANGED <<rawFile, cacheFile, movies_df, available_genres,
                   argsort_order, conv, first, dh>>

\* mutant: recommend_command without the movies_df.empty check
recommend_unchecked(c) ==
    /\ conv[c] = "END"
    /\ reply' = Msg("recommend", "keyboard")
    /\ conv' = [conv EXCEPT ![c] = "CHOOSING"]
    /\ UNCHANGED <<rawFile, cacheFile, movies_df, available_genres,
                   argsort_order, first, dh>>

\* entry point of the conversation: taken only outside a conversation
recommend_command(c) ==
    /\ conv[c] = "END"
    /\ IF empty(movies_df)
       THEN /\ reply' = Msg("recommend", "unavailable")
            /\ conv' = [conv EXCEPT ![c] = "END"]
       ELSE /\ reply' = Msg("recommend", "keyboard")
            /\ conv' = [conv EXCEPT ![c] = "CHOOSING"]
    /\ UNCHANGED <<rawFile, cacheFile, movies_df, available_genres,
                   argsort_order, first, dh>>

genre_selected(c, data) ==
    /\ conv[c] = "CHOOSING"
    /\ LET genre == genre_of(data)
           filtered_movies == filter_genre(movies_df.rows, genre)
           rated == top_rated(filtered_movies, argsort_order)
           unrated == top_unrated(filtered_movies)
       IN  IF "Genre" \notin movies_df.columns
           THEN \* movies_df['Genre'] raises KeyError; the state is kept
                /\ reply' = [Msg("genre_selected", "raised") EXCEPT !.data = data]
                /\ UNCHANGED <<conv, first>>
           ELSE IF filtered_movies = <<>>
           THEN /\ reply' = [Msg("genre_selected", "no_movies") EXCEPT
                                !.data = data, !.genre = genre]
                /\ conv' = [conv EXCEPT ![c] = "END"]
                /\ UNCHANGED first
           ELSE /\ reply' = [Msg("genre_selected", "recommendations") EXCEPT
                                !.data = data, !.genre = genre,
                                !.rated = rated, !.unrated = unrated]
                /\ conv' = [conv EXCEPT ![c] = "END"]
                /\ first' = record("genre", data, rated, unrated)
    /\ UNCHANGED <<rawFile, cacheFile, movies_df, available_genres,
                   argsort_order, dh>>

\* mutant: popular_command sorts the shared table itself
\* (movies_df.sort_values(by='Rate', ascending=False, inplace=True))
popular_inplace(c) ==
    /\ reply' = [Msg("popular", "top") EXCEPT
                    !.rated = top_movies(movies_df.rows, argsort_order)]
    /\ movies_df' = [movies_df EXCEPT !.rows =
                        sort_values(rated_movies(movies_df.rows), argsort_order)
                        \o unrated_movies(movies_df.rows)]
    /\ first' = record("popular", <<>>, reply'.rated, <<>>)
    /\ UNCHANGED <<rawFile, cacheFile, available_genres, argsort_order, conv, dh>>

popular_command(c) ==
    /\ IF empty(movies_df)
       THEN /\ reply' = Msg("popular", "unavailable")
            /\ UNCHANGED first
       ELSE IF rated_movies(movies_df.rows) = <<>>
       THEN /\ reply' = Msg("popular", "no_rated")
            /\ UNCHANGED first
       ELSE LET top == top_movies(movies_df.rows, argsort_order)
            IN  /\ reply' = [Msg("popular", "top") EXCEPT !.rated = top]
                /\ first' = record("popular", <<>>, top, <<>>)
    /\ UNCHANGED <<rawFile, cacheFile, movies_df, available_genres,
                   argsort_order, conv, dh>>

random_movie(c) ==
    /\ IF empty(movies_df)
       THEN reply' = Msg("random", "unavailable")
       ELSE \E random_index \in randint(Len(movies_df.rows)) :
                reply' = IF random_index + 1 \in DOMAIN movies_df.rows
                         THEN [Msg("random", "movie") EXCEPT
                                  !.index = random_index,
                                  !.movie = movies_df.rows[random_index + 1]]
                         ELSE \* iloc raises IndexError
                              [Msg("random", "raised") EXCEPT !.index = random_index]
    /\ UNCHANGED <<rawFile, cacheFile, movies_df, available_genres,
                   argsort_order, conv, first, dh>>

\* fallback of the conversation: taken only inside it
cancel(c) ==
    /\ conv[c] = "CHOOSING"
    /\ reply' = Msg("cancel", "text")
    /\ conv' = [conv EXCEPT ![c] = "END"]
    /\ UNCHANGED <<rawFile, cacheFile, movies_df, available_genres,
                   argsort_order, first, dh>>


DhNotCalled == [called |-> FALSE, cache_was |-> MissingFile,
                df |-> EmptyDataFrame, genres |-> <<>>]

\* the process after `movies_df, available_genres = load_movies_data()`
Init ==
    /\ rawFile \in RawFiles
    /\ cacheFile = MissingFile
    /\ movies_df = load_movies_data(rawFile)[1]
    /\ available_genres = load_movies_data(rawFile)[2]
    /\ argsort_order \in argsort_outcomes(Range(rated_movies(movies_df.rows)))
    /\ conv = [c \in Chats |-> "END"]
    /\ reply = NoReply
    /\ first = NoHistory
    /\ dh = DhNotCalled

Next ==
    \E c \in Chats :
        \/ start(c)
        \/ help_command(c)
        \/ genres_command(c)
        \/ recommend_command(c)
        \/ \E data \in CallbackData : genre_selected(c, data)
        \/ popular_command(c)
        \/ random_movie(c)
        \/ cancel(c)

Spec == Init /\ [][Next]_vars

\* the load at startup failed: the source file is missing or unreadable, or
\* its header lacks a required column
LoadFailed ==
    \/ rawFile.kind # "ok"
    \/ ~({"Name", "Genre"} \subseteq rawFile.columns)

\* C6: if the dataset failed to load, the table and the vocabulary are empty
\* in every state, genres, recommend, popular and random reply "unavailable",
\* no handler raises, no chat is ever in the genre-selection step and
\* genre_selected never runs.
C6_LoadFailureIsPermanent ==
    LoadFailed =>
        /\ movies_df = EmptyDataFrame
        /\ available_genres = <<>>
        /\ reply.cmd \in {"genres", "recommend", "popular", "random"}
              => reply.kind = "unavailable"
        /\ reply.kind # "raised"
        /\ reply.cmd # "genre_selected"
        /\ \A c \in Chats : conv[c] = "END"

\* C6 witness: the file lacks a required column and recommend was invoked
C6_Witness ==
    /\ rawFile.kind = "ok"
    /\ LoadFailed
    /\ reply.cmd = "recommend"
    /\ reply.kind = "unavailable"

\* C10: no handler changes the table or the vocabulary, which stay what the
\* load produced; a popular list, or the recommendation for a genre button,
\* sent again is the one sent the first time.
C10_HandlersKeepTable ==
    /\ [](<<movies_df, available_genres>> = load_movies_data(rawFile))
    /\ [][
        /\ movies_df' = movies_df
        /\ available_genres' = available_genres
        /\ (reply'.cmd = "popular" /\ first.cmd = "popular")
              => (reply'.kind = "top" /\ reply'.rated = first.rated)
        /\ (reply'.cmd = "genre_selected" /\ first.cmd = "genre"
              /\ reply'.data = first.data)
              => (reply'.kind = "recommendations"
                    /\ reply'.rated = first.rated
                    /\ reply'.unrated = first.unrated)
      ]_vars

\* C10 witness: popular has been served twice, the second time just now and
\* while a conversation is in its genre-selection step
C10_Witness ==
    /\ first.cmd = "popular"
    /\ first.again
    /\ Len(first.rated) > 1
    /\ first.rated[1].idx > 0
    /\ reply.cmd = "popular"
    /\ \E c \in Chats : conv[c] = "CHOOSING"

---------------------------------------------------------------------------
(* Runs of dataset_handler.py against the files on disk *)

\* the states movies_data.csv can be found in: absent, unreadable, left by an
\* earlier run over another source, or a table without a Genre column
CacheFiles ==
    {MissingFile, CorruptFile}
    \cup {process_dataset(File(AllColumns, rows), MissingFile).file :
            rows \in SeqsUpTo(RowPool, 1)}
    \cup {File({"Title"}, <<[Title |-> Str("X")]>>)}

\* a call of dataset_handler.load_movies_data()
dh_load ==
    /\ LET r == dh_load_movies_data(rawFile, cacheFile)
       IN  /\ dh' = [called |-> TRUE, cache_was |-> cacheFile,
                     df |-> r.df, genres |-> r.genres]
           /\ cacheFile' = r.cache
    /\ UNCHANGED <<rawFile, movies_df, available_genres, argsort_order,
                   conv, reply, first>>

\* a call of dataset_handler.process_dataset()
dh_process ==
    /\ cacheFile' = process_dataset(rawFile, cacheFile).file
    /\ UNCHANGED <<rawFile, movies_df, available_genres, argsort_order,
                   conv, reply, first, dh>>

InitDH ==
    /\ rawFile \in RawFiles
    /\ cacheFile \in CacheFiles
    /\ movies_df = load_movies_data(rawFile)[1]
    /\ available_genres = load_movies_data(rawFile)[2]
    /\ argsort_order \in argsort_outcomes(Range(rated_movies(movies_df.rows)))
    /\ conv = [c \in Chats |-> "END"]
    /\ reply = NoReply
    /\ first = NoHistory
    /\ dh = DhNotCalled

NextDH == dh_load \/ dh_process

SpecDH == InitDH /\ [][NextDH]_vars

---------------------------------------------------------------------------
(* Properties of the recommendation handlers, checked under Spec *)

Minimum(a, b) == IF a < b THEN a ELSE b

NonIncreasing(rows) ==
    \A i, j \in 1..Len(rows) : i < j => rows[i].Rate.v >= rows[j].Rate.v

\* a rating that is not null and strictly greater than 0
HasRating(r) == ~r.Rate.na /\ r.Rate.v > 0

IsRecommendation == reply.cmd = "genre_selected" /\ reply.kind = "recommendations"

\* C1: the rated list of a genre recommendation is sorted non-increasing by
\* rating and has at most 5 entries; the unrated list has at most 5 entries.
C1_GenreListsSortedAndBounded ==
    IsRecommendation =>
        /\ NonIncreasing(reply.rated)
        /\ Len(reply.rated) <= 5
        /\ Len(reply.unrated) <= 5

\* C1 witness: a recommendation whose two lists were both cut to 5 and whose
\* rated list holds different ratings
C1_Witness ==
    /\ IsRecommendation
    /\ Len(reply.rated) = 5
    /\ Len(reply.unrated) = 5
    /\ Len(rated_movies(filter_genre(movies_df.rows, reply.genre))) > 5
    /\ Len(unrated_movies(filter_genre(movies_df.rows, reply.genre))) > 5
    /\ reply.rated[1].Rate.v > reply.rated[5].Rate.v

\* C2: in a genre recommendation a filtered record is in the rated subset iff
\* its rating is non-null and > 0, and in the unrated subset otherwise: the
\* lists shown are the first 5 of two disjoint subsets that together hold
\* every filtered record; a row whose raw Rate is "No Rate" is loaded with a
\* null rating and is unrated.
C2_RatedUnratedPartition ==
    /\ \A r \in Range(movies_df.rows) :
          ("Rate" \in rawFile.columns
             /\ rawFile.rows[r.idx + 1].Rate = RStr("No Rate")) => r.Rate.na
    /\ IsRecommendation =>
          LET filtered == Range(filter_genre(movies_df.rows, reply.genre))
              R == {r \in filtered : HasRating(r)}
              U == {r \in filtered : ~HasRating(r)}
          IN  /\ Range(reply.rated) \subseteq R
              /\ Range(reply.unrated) \subseteq U
              /\ Range(reply.rated) \cap Range(reply.unrated) = {}
              /\ Len(reply.rated) = Minimum(5, Cardinality(R))
              /\ Len(reply.unrated) = Minimum(5, Cardinality(U))
              /\ Cardinality(Range(reply.rated)) = Len(reply.rated)
              /\ Cardinality(Range(reply.unrated)) = Len(reply.unrated)
              /\ (Cardinality(R) <= 5 /\ Cardinality(U) <= 5) =>
                    Range(reply.rated) \cup Range(reply.unrated) = filtered

\* C2 witness: a recommendation with rated records, a "No Rate" record and a
\* record rated 0, the last two shown as unrated
C2_Witness ==
    /\ IsRecommendation
    /\ reply.rated # <<>>
    /\ \E r \in Range(reply.unrated) : rawFile.rows[r.idx + 1].Rate = RStr("No Rate")
    /\ \E r \in Range(reply.unrated) : ~r.Rate.na /\ r.Rate.v = 0

\* C3: in the genre recommendation and in the popular listing, rated records
\* of equal rating appear in their original table order.
C3_TiesInTableOrder ==
    (IsRecommendation \/ (reply.cmd = "popular" /\ reply.kind = "top")) =>
        \A i, j \in 1..Len(reply.rated) :
            (i < j /\ reply.rated[i].Rate.v = reply.rated[j].Rate.v)
                => reply.rated[i].idx < reply.rated[j].idx

\* C4: popular returns only rated records, sorted descending by rating, the
\* 10 best; with fewer rated records than 10 it returns them all; on a
\* non-empty table without any rated record it replies "no rated movies".
C4_Popular ==
    reply.cmd = "popular" =>
        LET R == {r \in Range(movies_df.rows) : HasRating(r)}
        IN  IF movies_df.rows = <<>> THEN reply.kind = "unavailable"
            ELSE IF R = {} THEN reply.kind = "no_rated" /\ reply.rated = <<>>
            ELSE /\ reply.kind = "top"
                 /\ Range(reply.rated) \subseteq R
                 /\ NonIncreasing(reply.rated)
                 /\ Len(reply.rated) = Minimum(10, Cardinality(R))
                 /\ Cardinality(Range(reply.rated)) = Len(reply.rated)
                 /\ \A r \in R \ Range(reply.rated) :
                       \A q \in Range(reply.rated) : q.Rate.v >= r.Rate.v

\* C4 witness: popular on a table with unrated records and fewer rated
\* records than the limit returned all the rated ones
C4_Witness ==
    /\ reply.cmd = "popular"
    /\ reply.kind = "top"
    /\ Len(reply.rated) > 1
    /\ Len(reply.rated) < 10
    /\ Len(reply.rated) < Len(movies_df.rows)
    /\ Len(reply.rated) = Cardinality({r \in Range(movies_df.rows) : HasRating(r)})

\* C5: random on a table of zero records replies "unavailable" and draws no
\* index; on a non-empty table the index drawn is within 0..len-1, every
\* index can be drawn, and a table of one record always yields that record.
C5_RandomPick ==
    /\ reply.cmd = "random" =>
          IF movies_df.rows = <<>>
          THEN reply.kind = "unavailable" /\ reply.index = -1
          ELSE /\ reply.kind = "movie"
               /\ reply.index \in 0..(Len(movies_df.rows) - 1)
               /\ reply.movie = movies_df.rows[reply.index + 1]
               /\ Len(movies_df.rows) = 1 => reply.movie = movies_df.rows[1]
    /\ \A i \in 0..(Len(movies_df.rows) - 1) :
          ENABLED (\E c \in Chats : random_movie(c) /\ reply'.kind = "movie"
                                       /\ reply'.index = i)

\* C5 witness: the last index of a table of several records was drawn, and
\* the record there is unrated
C5_Witness ==
    /\ reply.cmd = "random"
    /\ reply.kind = "movie"
    /\ Len(movies_df.rows) > 1
    /\ reply.index = Len(movies_df.rows) - 1
    /\ ~HasRating(reply.movie)

---------------------------------------------------------------------------
(* Properties of the loaders, checked under SpecDH *)

\* the source file can be processed and at least one of its rows survives
RawValid ==
    /\ rawFile.kind = "ok"
    /\ process_dataset(rawFile, MissingFile).file.rows # <<>>

\* the cache file holds a table the loader can use
Readable(file) ==
    /\ file.kind = "ok"
    /\ "Genre" \in file.columns
    /\ str_accessor_ok(file.rows)

\* C7: dataset_handler's loader uses a readable cache instead of the raw
\* source, and with the cache missing or corrupt and a valid raw source it
\* reprocesses the raw source and returns its non-empty table.
C7_CacheIsAdvisory ==
    dh.called =>
        /\ Readable(dh.cache_was) => to_csv(dh.df) = dh.cache_was
        /\ (dh.cache_was.kind \in {"missing", "corrupt"} /\ RawValid) =>
              /\ dh.df.rows # <<>>
              /\ to_csv(dh.df) = process_dataset(rawFile, MissingFile).file

\* the raw rows whose title and genre are both present
TitleAndGenre(file) ==
    SelectSeq(file.rows, LAMBDA r : ~r.Name.na /\ ~r.Genre.na)

\* C8: a raw row survives normalization iff its title and genre are non-null
\* (a missing rating does not drop it), in main.py's loader and in
\* process_dataset; every loaded record has a title and a genre.
C8_SurvivesIffTitleAndGenre ==
    (rawFile.kind = "ok" /\ {"Name", "Genre"} \subseteq rawFile.columns) =>
        /\ [i \in 1..Len(movies_df.rows) |->
               <<movies_df.rows[i].Name, movies_df.rows[i].Genre>>]
             = [i \in 1..Len(TitleAndGenre(rawFile)) |->
                   <<TitleAndGenre(rawFile)[i].Name, TitleAndGenre(rawFile)[i].Genre>>]
        /\ (dh.called /\ dh.cache_was.kind = "missing") =>
              [i \in 1..Len(dh.df.rows) |->
                   <<dh.df.rows[i].Title, dh.df.rows[i].Genre>>]
                = [i \in 1..Len(TitleAndGenre(rawFile)) |->
                      <<TitleAndGenre(rawFile)[i].Name, TitleAndGenre(rawFile)[i].Genre>>]

\* a before b in case-sensitive lexicographic order
LexLess(a, b) ==
    \E k \in 1..(Len(b)) :
        /\ \A i \in 1..(k - 1) : i <= Len(a) /\ a[i] = b[i]
        /\ (k > Len(a) \/ (k <= Len(a) /\ a[k] < b[k]))

\* the tokens of a genre text: the text between two neighbouring commas (or
\* an end of the text), without the spaces around it, if anything is left
TokensOf(s) ==
    { SubSeq(s, p[1], p[2]) :
        p \in { q \in (1..Len(s)) \X (1..Len(s)) :
                  LET a == q[1]
                      b == q[2]
                  IN  /\ a <= b
                      /\ \A k \in a..b : s[k] # COMMA
                      /\ s[a] # SPACE /\ s[b] # SPACE
                      /\ \E i \in 1..a :
                            /\ (i = 1 \/ s[i - 1] = COMMA)
                            /\ \A k \in i..(a - 1) : s[k] = SPACE
                      /\ \E j \in b..Len(s) :
                            /\ (j = Len(s) \/ s[j + 1] = COMMA)
                            /\ \A k \in (b + 1)..j : s[k] = SPACE } }

IsVocabularyOf(genres, rows) ==
    /\ \A i, j \in 1..Len(genres) : i < j => LexLess(genres[i], genres[j])
    /\ \A i \in 1..Len(genres) :
          /\ genres[i] # <<>>
          /\ genres[i][1] # SPACE
          /\ genres[i][Len(genres[i])] # SPACE
    /\ Range(genres) = UNION {TokensOf(rows[i].Genre.s) : i \in 1..Len(rows)}

\* C9: the vocabulary derived at load (by main.py and by dataset_handler) is
\* the set of the trimmed, non-empty comma-separated tokens of the records'
\* genre fields, without duplicates, in ascending case-sensitive order.
C9_VocabularyIsSortedTokenSet ==
    /\ IsVocabularyOf(available_genres, movies_df.rows)
    /\ dh.called => IsVocabularyOf(dh.genres, dh.df.rows)

\* C9 witness: both loaders produced a vocabulary of three or more tokens
\* from a table with an empty token, an untrimmed token and a repeated token
C9_Witness ==
    /\ Len(available_genres) >= 3
    /\ dh.called
    /\ dh.cache_was.kind = "missing"
    /\ Len(dh.genres) >= 3
    /\ \E r \in Range(dh.df.rows) :
          LET pieces == split(r.Genre.s, COMMA)
          IN  /\ <<>> \in Range(pieces)
              /\ \E i \in 1..Len(pieces) : strip(pieces[i]) # pieces[i]
              /\ \E i, j \in 1..Len(pieces) :
                    i < j /\ strip(pieces[i]) = strip(pieces[j])
                          /\ strip(pieces[i]) # <<>>

\* the source file can be read, has the required columns and lacks all of
\* `absent`, and some row of it has a title and a genre
Lacks(absent) ==
    /\ rawFile.kind = "ok"
    /\ {"Name", "Genre"} \subseteq rawFile.columns
    /\ absent \cap rawFile.columns = {}
    /\ TitleAndGenre(rawFile) # <<>>

\* C11: with no Rate column in the source file the load does not fail and
\* every record gets a null rating, not a number, in main.py's loader and in
\* process_dataset, so every record is unrated and popular has no rated
\* movie to show; with no Date and no Type column the load does not fail
\* and process_dataset gives every record "Unknown" for both.
C11_AbsentColumnsGetSentinels ==
    /\ Lacks({"Rate"}) =>
          /\ Len(movies_df.rows) = Len(TitleAndGenre(rawFile))
          /\ \A r \in Range(movies_df.rows) : r.Rate.na /\ is_unrated(r)
          /\ rated_movies(movies_df.rows) = <<>>
          /\ reply.cmd = "popular" => reply.kind = "no_rated"
          /\ (dh.called /\ dh.cache_was.kind = "missing") =>
                /\ dh.df.columns = Range(ProcessedColumns)
                /\ dh.df.rows # <<>>
                /\ \A r \in Range(dh.df.rows) : r.Rate = RNaN
    /\ Lacks({"Date", "Type"}) =>
          /\ Len(movies_df.rows) = Len(TitleAndGenre(rawFile))
          /\ (dh.called /\ dh.cache_was.kind = "missing") =>
                /\ dh.df.columns = Range(ProcessedColumns)
                /\ \A r \in Range(dh.df.rows) :
                      r.Year = Str("Unknown") /\ r.Type = Str("Unknown")

---------------------------------------------------------------------------
(* The buttons of the recommend flow, checked under Spec *)

\* C12: for every token g of the vocabulary, the genre that genre_selected
\* recovers from the callback data "genre_" + g is g itself; the filter is
\* then applied with g, keeps every record whose genre field produced g, and
\* the reply is a recommendation, never "no movies found".
C12_ButtonRecoversGenre ==
    \A g \in Range(available_genres) :
        (reply.cmd = "genre_selected" /\ reply.data = GenrePrefix \o g) =>
              /\ reply.genre = g
              /\ reply.kind = "recommendations"
              /\ filter_genre(movies_df.rows, reply.genre)
                    = filter_genre(movies_df.rows, g)
              /\ \A r \in Range(movies_df.rows) :
                    g \in TokensOf(r.Genre.s) =>
                        r \in Range(filter_genre(movies_df.rows, reply.genre))

=============================================================================
